---- MODULE Spec2Model ----
(***************************************************************************)
(* Model of hangar's Arraysets catalog (src/src/hangar/arrayset.py): the   *)
(* name -> accessor mapping of one checkout, its read / write capability   *)
(* partition, the scoped-access (context manager) counters, and the        *)
(* structural operations init_arrayset, delete and multi_add acting on the *)
(* records store and the hash store.                                       *)
(*                                                                         *)
(* Strings that take part in key ordering (arrayset names, sample names,   *)
(* store keys) are sequences of character codes, so that prefix tests and  *)
(* the cursor's key order are computed the way the store computes them.    *)
(***************************************************************************)
EXTENDS Integers, Sequences, FiniteSets, TLC

VARIABLES
    mode,               \* self._mode: "new" before a factory ran, then "r" or "a"
    arraysets,          \* self._arraysets: name -> accessor
    aset_keys,          \* insertion order of the self._arraysets dict
    is_conman_counter,  \* self._is_conman_counter
    stack,              \* self._stack: accessors to leave when the stack closes
    nulled,             \* instance attributes that __setup set to None
    dataenv,            \* committed contents of the records store
    hashenv,            \* committed contents of the hash store
    txn,                \* the write transaction in progress, if any
    pc,                 \* position inside the handler that is running
    call,               \* local variables of the handler that is running
    result,             \* outcome of the call that just returned
    sample_counter,     \* number of sample names generated so far
    pre,                \* the catalog and the stores as they were when the call began
    deleted             \* names deleted by a call that succeeded and not created since

vars == <<mode, arraysets, aset_keys, is_conman_counter, stack, nulled,
          dataenv, hashenv, txn, pc, call, result, sample_counter, pre, deleted>>

-----------------------------------------------------------------------------
(* Bounds of the model.                                                    *)

\* deepest nesting of scoped-access contexts on one object
MaxDepth == 2
\* number of sample names generate_sample_name hands out
MaxSamples == 1

\* scoped-access contexts a caller holds on one accessor at a time
MaxHeld == 1

(* Program constants.                                                      *)

\* longest arrayset name accepted
MaxNameLen == 64
\* largest rank of a sample template
MaxRank == 31

-----------------------------------------------------------------------------
(* Character sequences.                                                    *)

NameX == <<120>>
NameX2 == <<120, 50>>
NameY == <<121>>
\* "bad name!"
NameBad == <<98, 97, 100, 32, 110, 97, 109, 101, 33>>
\* 65 characters
NameLong == [i \in 1..(MaxNameLen + 1) |-> 120]
\* a non-ascii character
NameNonAscii == <<233>>

ValidNames == {NameX, NameX2}
Names == ValidNames \cup {NameBad, NameLong, NameNonAscii}

\* key prefixes of the records store
K_STGARR == <<97, 58>>
K_SCHEMA == <<115, 58>>
SEP_KEY == <<58>>

RECURSIVE KeyLess(_, _)
\* byte-wise lexicographic order of the store's keys
KeyLess(a, b) ==
    IF Len(b) = 0 THEN FALSE
    ELSE IF Len(a) = 0 THEN TRUE
    ELSE IF a[1] < b[1] THEN TRUE
    ELSE IF a[1] > b[1] THEN FALSE
    ELSE KeyLess(Tail(a), Tail(b))

\* bytes.startswith
StartsWith(k, p) == Len(k) >= Len(p) /\ SubSeq(k, 1, Len(p)) = p

\* the least key of a non-empty set of keys
MinKey(S) == CHOOSE x \in S : \A y \in S : x = y \/ KeyLess(x, y)

RECURSIVE SortKeys(_)
\* the keys of S in the store's order
SortKeys(S) == IF S = {} THEN <<>> ELSE <<MinKey(S)>> \o SortKeys(S \ {MinKey(S)})

\* is_ascii
is_ascii(name) == \A i \in 1..Len(name) : name[i] < 128

IsNameChar(c) ==
    \/ c \in 48..57
    \/ c \in 65..90
    \/ c \in 97..122
    \/ c \in {45, 46, 95}

\* is_suitable_user_key
is_suitable_user_key(name) ==
    /\ Len(name) > 0
    /\ Len(name) <= MaxNameLen
    /\ \A i \in 1..Len(name) : IsNameChar(name[i])

-----------------------------------------------------------------------------
(* Key-value stores and cursors.                                           *)

EmptyStore == <<>>

\* txn.put(key, val)
Put(store, k, v) == [x \in DOMAIN store \cup {k} |-> IF x = k THEN v ELSE store[x]]

\* txn.put(key, val, overwrite=False)
PutNoOverwrite(store, k, v) == IF k \in DOMAIN store THEN store ELSE Put(store, k, v)

\* txn.delete(key)
Del(store, k) == [x \in DOMAIN store \ {k} |-> store[x]]

\* cursor.set_range(key): the position of the first key >= key, if any
SetRange(store, k) ==
    LET ge == {x \in DOMAIN store : ~KeyLess(x, k)}
    IN  IF ge = {} THEN {} ELSE {MinKey(ge)}

\* the position a cursor moves to when the record under it is deleted
NextPos(store, k) ==
    LET gt == {x \in DOMAIN store : KeyLess(k, x)}
    IN  IF gt = {} THEN {} ELSE {MinKey(gt)}

\* arrayset_record_count_range_key
arrayset_record_count_range_key(name) == K_STGARR \o name \o SEP_KEY

\* arrayset_record_schema_db_key_from_raw_key
arrayset_record_schema_db_key_from_raw_key(name) == K_SCHEMA \o name

\* key of one sample-location record of an arrayset
data_record_db_key(name, sample) == arrayset_record_count_range_key(name) \o sample

\* hash_schema_db_key_from_raw_key
hash_schema_db_key_from_raw_key(h) == <<"s:", h>>

-----------------------------------------------------------------------------
(* Sample templates, backend options and schema descriptors.               *)

NoProto == [kind |-> "none", shape |-> <<>>, dtype |-> 0, c_contiguous |-> TRUE]
ProtoA == [kind |-> "ndarray", shape |-> <<2>>, dtype |-> 2, c_contiguous |-> TRUE]
ProtoNonContig == [kind |-> "ndarray", shape |-> <<2, 3>>, dtype |-> 2, c_contiguous |-> FALSE]
ProtoNotArray == [kind |-> "other", shape |-> <<>>, dtype |-> 0, c_contiguous |-> TRUE]

NoShape == [kind |-> "none", dims |-> <<>>]
ShapeInt2 == [kind |-> "int", dims |-> <<2>>]
ShapeT23 == [kind |-> "tuple", dims |-> <<2, 3>>]
ShapeZeroDim == [kind |-> "tuple", dims |-> <<2, 0>>]
ShapeRank32 == [kind |-> "tuple", dims |-> [i \in 1..(MaxRank + 1) |-> 1]]

\* a dtype argument is <<>> (None) or <<num>>
NoDtype == <<>>
\* a backend_opts argument is <<>> (None) or <<code>>
NoBackendOpts == <<>>

\* np.zeros(shape, dtype=dtype)
np_zeros(shape, dtype) ==
    [kind |-> "ndarray", shape |-> shape.dims, dtype |-> dtype[1], c_contiguous |-> TRUE]

RECURSIVE Product(_)
\* ndarray.size
Product(dims) == IF Len(dims) = 0 THEN 1 ELSE dims[1] * Product(Tail(dims))

\* the backend codes that are registered
BackendCodes == {"00", "01", "10"}

\* parse_user_backend_opts: the backend and options of a template
parse_user_backend_opts(backend_opts, prototype, named_samples, variable_shape) ==
    LET code == IF backend_opts = NoBackendOpts
                THEN (IF Len(prototype.shape) = 1 THEN "10" ELSE "01")
                ELSE backend_opts[1]
    IN  [ok |-> code \in BackendCodes, backend |-> code, opts |-> <<code, "default">>]

\* schema_hash_digest: injective in its arguments
schema_hash_digest(shape, size, dtype_num, named_samples, variable_shape, backend_code, backend_opts) ==
    <<shape, size, dtype_num, named_samples, variable_shape, backend_code, backend_opts>>

\* arrayset_record_schema_db_val_from_raw_val: the stored encoding of a descriptor
arrayset_record_schema_db_val_from_raw_val(schema_hash, schema_is_var, schema_max_shape, schema_dtype, schema_is_named, schema_default_backend, schema_default_backend_opts, schema_contains_subsamples) ==
    <<"schema", schema_hash, schema_is_var, schema_max_shape, schema_dtype,
      schema_is_named, schema_default_backend, schema_default_backend_opts,
      schema_contains_subsamples>>

\* arrayset_record_schema_raw_val_from_db_val: decoding of a stored descriptor
arrayset_record_schema_raw_val_from_db_val(v) ==
    [schema_hash |-> v[2],
     schema_is_var |-> v[3],
     schema_max_shape |-> v[4],
     schema_dtype |-> v[5],
     schema_is_named |-> v[6],
     schema_default_backend |-> v[7],
     schema_default_backend_opts |-> v[8],
     schema_contains_subsamples |-> v[9]]

\* the hash init_arrayset computes for a resolved template
InitSchemaHash(prototype, named_samples, variable_shape, beopts) ==
    schema_hash_digest(prototype.shape, Product(prototype.shape), prototype.dtype,
                       named_samples, variable_shape, beopts.backend, beopts.opts)

\* the schema record value init_arrayset stores for a resolved template
InitSchemaVal(prototype, named_samples, variable_shape, contains_subsamples, beopts) ==
    arrayset_record_schema_db_val_from_raw_val(
        InitSchemaHash(prototype, named_samples, variable_shape, beopts),
        variable_shape, prototype.shape, prototype.dtype, named_samples,
        beopts.backend, beopts.opts, contains_subsamples)

\* the arguments init_arrayset is called with
MkArgs(prototype, shape, dtype, named, var, subs, be) ==
    [prototype |-> prototype, shape |-> shape, dtype |-> dtype,
     named_samples |-> named, variable_shape |-> var,
     contains_subsamples |-> subs, backend_opts |-> be]

ArgsA == MkArgs(ProtoA, NoShape, NoDtype, TRUE, FALSE, FALSE, NoBackendOpts)
ArgsASub == MkArgs(ProtoA, NoShape, NoDtype, TRUE, FALSE, TRUE, NoBackendOpts)
ArgsAInt == MkArgs(NoProto, ShapeInt2, <<2>>, TRUE, FALSE, FALSE, NoBackendOpts)
ArgsB == MkArgs(NoProto, ShapeT23, <<11>>, FALSE, TRUE, TRUE, <<"00">>)
ArgsNothing == MkArgs(NoProto, NoShape, NoDtype, TRUE, FALSE, FALSE, NoBackendOpts)
ArgsNoDtype == MkArgs(NoProto, ShapeT23, NoDtype, TRUE, FALSE, FALSE, NoBackendOpts)
ArgsNonContig == MkArgs(ProtoNonContig, NoShape, NoDtype, TRUE, FALSE, FALSE, NoBackendOpts)
ArgsNotArray == MkArgs(ProtoNotArray, NoShape, NoDtype, TRUE, FALSE, FALSE, NoBackendOpts)
ArgsRank32 == MkArgs(NoProto, ShapeRank32, <<2>>, TRUE, FALSE, FALSE, NoBackendOpts)
ArgsZeroDim == MkArgs(NoProto, ShapeZeroDim, <<2>>, TRUE, FALSE, FALSE, NoBackendOpts)
ArgsBadBackend == MkArgs(ProtoA, NoShape, NoDtype, TRUE, FALSE, FALSE, <<"zz">>)
ArgsZeroDimBadBackend == MkArgs(NoProto, ShapeZeroDim, <<2>>, TRUE, FALSE, FALSE, <<"zz">>)
ArgsNonContigBadBackend == MkArgs(ProtoNonContig, NoShape, NoDtype, TRUE, FALSE, FALSE, <<"zz">>)

ValidArgs == {ArgsA, ArgsASub, ArgsAInt}
InvalidArgs == {ArgsNothing, ArgsNoDtype, ArgsNonContig, ArgsNotArray, ArgsRank32,
                ArgsZeroDim, ArgsBadBackend, ArgsZeroDimBadBackend,
                ArgsNonContigBadBackend}
InitArgs == ValidArgs \cup InvalidArgs

\* the calls of init_arrayset: every well-formed name with every valid argument
\* list, every malformed name with a valid argument list and with an invalid
\* one, and every invalid argument list with a well-formed name
InitCalls ==
    (ValidNames \X ValidArgs)
        \cup ((Names \ ValidNames) \X {ArgsA, ArgsNothing})
        \cup ({NameX} \X InvalidArgs)

-----------------------------------------------------------------------------
(* Accessors and the stores a checkout starts from.                        *)

\* the accessor a Sample / Subsample generator returns
MkAccessor(variant, name, schemaSpec, writeable) ==
    [variant |-> variant, aset_name |-> name, schema |-> schemaSpec,
     writeable |-> writeable, is_conman |-> 0, held |-> 0]

\* dispatch on contains_subsamples to the Subsample or the Sample generator
GenerateAccessor(name, schemaSpec, writeable) ==
    IF schemaSpec.schema_contains_subsamples
    THEN MkAccessor("Subsample", name, schemaSpec, writeable)
    ELSE MkAccessor("Sample", name, schemaSpec, writeable)

\* accessor.__enter__
AccessorEnter(a) == [a EXCEPT !.is_conman = @ + 1]

\* accessor.__exit__
AccessorExit(a) == [a EXCEPT !.is_conman = @ - 1]

SampleName0 == <<48>>
SampleName1 == <<49>>

\* generate_sample_name: the n-th generated name
generate_sample_name(n) == <<97 + n>>

\* the value of a sample-location record
DataVal(arr) == <<"data", arr>>

ValOf(args) ==
    LET proto == IF args.prototype.kind = "ndarray" THEN args.prototype
                 ELSE np_zeros(args.shape, args.dtype)
        beopts == parse_user_backend_opts(args.backend_opts, proto,
                                          args.named_samples, args.variable_shape)
    IN  InitSchemaVal(proto, args.named_samples, args.variable_shape,
                      args.contains_subsamples, beopts)

HashOfVal(v) == v[2]

\* a records store holding arraysets x and x2 with samples
PopulatedData ==
    LET s1 == Put(EmptyStore, arrayset_record_schema_db_key_from_raw_key(NameX), ValOf(ArgsA))
        s2 == Put(s1, arrayset_record_schema_db_key_from_raw_key(NameX2), ValOf(ArgsB))
        s3 == Put(s2, data_record_db_key(NameX, SampleName0), DataVal(1))
        s4 == Put(s3, data_record_db_key(NameX, SampleName1), DataVal(2))
    IN  Put(s4, data_record_db_key(NameX2, SampleName0), DataVal(3))

\* the hash store that goes with PopulatedData
PopulatedHash ==
    LET h1 == Put(EmptyStore, hash_schema_db_key_from_raw_key(HashOfVal(ValOf(ArgsA))), ValOf(ArgsA))
    IN  Put(h1, hash_schema_db_key_from_raw_key(HashOfVal(ValOf(ArgsB))), ValOf(ArgsB))

InitStores == {<<EmptyStore, EmptyStore>>, <<PopulatedData, PopulatedHash>>}

\* RecordQuery.schema_specs: the names that have a schema record, in key order
SchemaNames(store) ==
    LET ks == {k \in DOMAIN store : StartsWith(k, K_SCHEMA)}
        sorted == SortKeys(ks)
    IN  [i \in 1..Len(sorted) |-> SubSeq(sorted[i], Len(K_SCHEMA) + 1, Len(sorted[i]))]

\* RecordQuery.schema_specs: the descriptor recorded for a name
SchemaSpecOf(store, name) ==
    arrayset_record_schema_raw_val_from_db_val(
        store[arrayset_record_schema_db_key_from_raw_key(name)])

\* the sample-location records of an arrayset
RecordsOf(store, name) ==
    {k \in DOMAIN store : StartsWith(k, arrayset_record_count_range_key(name))}

-----------------------------------------------------------------------------
(* Calls, results and method lookup.                                       *)

NoTxn == [active |-> FALSE, data |-> EmptyStore, hash |-> EmptyStore]
NoCall == [name |-> <<>>, val |-> <<>>, hash |-> <<>>, items |-> <<>>,
           data_name |-> <<>>, entered |-> FALSE]
NoResult == [op |-> "", name |-> <<>>, err |-> "", why |-> "", ret |-> <<>>,
             listed |-> <<>>]

\* an outcome: the operation, its name argument, the exception raised ("" for
\* none) with what it complains about, and the value returned
MkResult(op, name, err, why, ret) ==
    [op |-> op, name |-> name, err |-> err, why |-> why, ret |-> ret, listed |-> <<>>]

\* TxnRegister().begin_writer_txn / AsetTxn.open_write: a write transaction that
\* starts from the committed contents
BeginWriterTxn(data, hash) == [active |-> TRUE, data |-> data, hash |-> hash]

\* TxnRegister().commit_writer_txn / AsetTxn.close_write: the contents committed
CommitWriterTxn(t) == [data |-> t.data, hash |-> t.hash]

\* a write transaction abandoned without commit: the committed contents stay
AbortWriterTxn(data, hash) == [data |-> data, hash |-> hash]

NoPre == [arraysets |-> <<>>, aset_keys |-> <<>>, counter |-> 0, stack |-> <<>>,
          dataenv |-> EmptyStore, hashenv |-> EmptyStore, args |-> {},
          mapping |-> <<>>]

\* what a call finds when it begins; args holds the argument list of an
\* init_arrayset call that got as far as looking at its arguments
Snapshot(args) ==
    [arraysets |-> arraysets, aset_keys |-> aset_keys, counter |-> is_conman_counter,
     stack |-> stack, dataenv |-> dataenv, hashenv |-> hashenv, args |-> args,
     mapping |-> <<>>]

\* the instance attributes __setup replaces by None
SetupNulled(m) ==
    IF m = "r"
    THEN {"_from_commit", "_from_staging_area", "init_arrayset", "delete",
          "multi_add", "__delitem__", "__setitem__"}
    ELSE {"_from_commit", "_from_staging_area"}

\* obj.method(...): the instance attribute is looked up first
MethodCallable(m) == m \notin nulled

\* variant: the instance attribute set to None would also disable the syntax
SpecialMethodLookupOnInstance(m) == m \notin nulled

\* obj[key] = v, del obj[key], with obj: the method of the class is used
SpecialMethodCallable(m) == TRUE

\* Arraysets._is_conman
is_conman == is_conman_counter # 0

\* variant: only the catalog's own counter is looked at
AnyIsConmanSelfOnly == is_conman

\* Arraysets._any_is_conman
any_is_conman ==
    is_conman \/ \E n \in DOMAIN arraysets : arraysets[n].is_conman # 0

\* Arraysets.get / __getitem__: "KeyError" or the accessor the proxy refers to
get(name) ==
    IF name \in DOMAIN arraysets
    THEN [err |-> "", accessor |-> {arraysets[name]}]
    ELSE [err |-> "KeyError", accessor |-> {}]

Constructed == mode \in {"r", "a"}
Idle == Constructed /\ pc = "idle"

\* sequence s without its element x
SeqWithout(s, x) ==
    LET F[i \in 0..Len(s)] ==
            IF i = 0 THEN <<>>
            ELSE IF s[i] = x THEN F[i - 1] ELSE Append(F[i - 1], s[i])
    IN  F[Len(s)]

-----------------------------------------------------------------------------
(* Construction.                                                           *)

Init ==
    /\ mode = "new"
    /\ arraysets = <<>>
    /\ aset_keys = <<>>
    /\ is_conman_counter = 0
    /\ stack = <<>>
    /\ nulled = {}
    /\ \E st \in InitStores : dataenv = st[1] /\ hashenv = st[2]
    /\ txn = NoTxn
    /\ pc = "idle"
    /\ call = NoCall
    /\ result = NoResult
    /\ sample_counter = 0
    /\ pre = NoPre
    /\ deleted = {}

\* a handler returns: its outcome is handed to the caller
Return(r) == result' = r /\ pc' = "returned" /\ call' = NoCall

\* the caller has taken the outcome and is free to make the next call
Resume ==
    /\ pc = "returned"
    /\ pc' = "idle"
    /\ result' = NoResult
    /\ pre' = NoPre
    /\ deleted' = IF result.op = "init_arrayset" /\ result.err = ""
                  THEN deleted \ {result.name} ELSE deleted
    /\ UNCHANGED <<mode, arraysets, aset_keys, is_conman_counter, stack, nulled,
                   dataenv, hashenv, txn, call, sample_counter>>

\* Arraysets.__init__ and __setup
Construct(m, asets, ks) ==
    /\ mode' = m
    /\ arraysets' = asets
    /\ aset_keys' = ks
    /\ is_conman_counter' = 0
    /\ stack' = <<>>
    /\ nulled' = SetupNulled(m)

\* variant: the writer generator is used by both factories
FactoryAccessorsAllWriteable(store, writeable) ==
    LET ks == SchemaNames(store)
    IN  [n \in {ks[i] : i \in 1..Len(ks)} |->
            GenerateAccessor(n, SchemaSpecOf(store, n), TRUE)]

\* the accessors a factory builds, one per schema descriptor of the store
FactoryAccessors(store, writeable) ==
    LET ks == SchemaNames(store)
    IN  [n \in {ks[i] : i \in 1..Len(ks)} |->
            GenerateAccessor(n, SchemaSpecOf(store, n), writeable)]

\* variant: when the generator fails the catalog is built from the accessors
\* made so far
FromStagingAreaPartial(failAt) ==
    /\ mode = "new"
    /\ pre' = Snapshot({})
    /\ pc = "idle"
    /\ failAt \in 0..Len(SchemaNames(dataenv))
    /\ IF failAt = 0
       THEN /\ Construct("a", FactoryAccessors(dataenv, TRUE), SchemaNames(dataenv))
            /\ Return(MkResult("_from_staging_area", <<>>, "", "", <<>>))
       ELSE /\ Construct("a",
                         [n \in {SchemaNames(dataenv)[i] : i \in 1..(failAt - 1)} |->
                             FactoryAccessors(dataenv, TRUE)[n]],
                         SubSeq(SchemaNames(dataenv), 1, failAt - 1))
            /\ Return(MkResult("_from_staging_area", SchemaNames(dataenv)[failAt],
                               "GeneratorError", "", <<>>))
    /\ UNCHANGED <<dataenv, hashenv, txn, sample_counter,
                   deleted>>

\* Arraysets._from_staging_area; failAt > 0: the generator fails at that descriptor
FromStagingArea(failAt) ==
    /\ mode = "new"
    /\ pre' = Snapshot({})
    /\ pc = "idle"
    /\ failAt \in 0..Len(SchemaNames(dataenv))
    /\ IF failAt = 0
       THEN /\ Construct("a", FactoryAccessors(dataenv, TRUE), SchemaNames(dataenv))
            /\ Return(MkResult("_from_staging_area", <<>>, "", "", <<>>))
       ELSE /\ Return(MkResult("_from_staging_area", SchemaNames(dataenv)[failAt],
                               "GeneratorError", "", <<>>))
            /\ UNCHANGED <<mode, arraysets, aset_keys, is_conman_counter, stack, nulled>>
    /\ UNCHANGED <<dataenv, hashenv, txn, sample_counter,
                   deleted>>

\* Arraysets._from_commit; failAt > 0: the generator fails at that descriptor
FromCommit(failAt) ==
    /\ mode = "new"
    /\ pre' = Snapshot({})
    /\ pc = "idle"
    /\ failAt \in 0..Len(SchemaNames(dataenv))
    /\ IF failAt = 0
       THEN /\ Construct("r", FactoryAccessors(dataenv, FALSE), SchemaNames(dataenv))
            /\ Return(MkResult("_from_commit", <<>>, "", "", <<>>))
       ELSE /\ Return(MkResult("_from_commit", SchemaNames(dataenv)[failAt],
                               "GeneratorError", "", <<>>))
            /\ UNCHANGED <<mode, arraysets, aset_keys, is_conman_counter, stack, nulled>>
    /\ UNCHANGED <<dataenv, hashenv, txn, sample_counter,
                   deleted>>

-----------------------------------------------------------------------------
(* Name-keyed assignment and scoped access.                                *)

\* Arraysets.__setitem__, reached by catalog[key] = value
SetItem(key, value) ==
    /\ Idle
    /\ pre' = Snapshot({})
    /\ IF SpecialMethodCallable("__setitem__")
       THEN Return(MkResult("__setitem__", key, "PermissionError", "", <<>>))
       ELSE Return(MkResult("__setitem__", key, "TypeError", "", <<>>))
    /\ UNCHANGED <<mode, arraysets, aset_keys, is_conman_counter, stack, nulled,
                   dataenv, hashenv, txn, sample_counter,
                   deleted>>

\* the accessors of asets named in ks, each entered once
EnterAllOf(asets, ks) ==
    [n \in DOMAIN asets |->
        IF \E i \in 1..Len(ks) : ks[i] = n THEN AccessorEnter(asets[n]) ELSE asets[n]]

\* the accessors of asets named in ks, each left once
ExitAllOf(asets, ks) ==
    [n \in DOMAIN asets |->
        IF \E i \in 1..Len(ks) : ks[i] = n THEN AccessorExit(asets[n]) ELSE asets[n]]

\* variant: a failed entry leaves the accessors entered before the failure
\* as they are
EnterEffectNoUnwind(failAt) ==
    IF failAt = 0
    THEN [arraysets |-> EnterAllOf(arraysets, aset_keys),
          counter |-> is_conman_counter + 1,
          stack |-> aset_keys,
          err |-> ""]
    ELSE LET entered == SubSeq(aset_keys, 1, failAt - 1)
         IN  [arraysets |-> EnterAllOf(arraysets, entered),
              counter |-> is_conman_counter,
              stack |-> stack,
              err |-> "EnterError"]

\* Arraysets.__enter__ up to the accessor that fails (failAt = 0: none fails):
\* the accessors, the counter and the stack afterwards
EnterEffect(failAt) ==
    IF failAt = 0
    THEN [arraysets |-> EnterAllOf(arraysets, aset_keys),
          counter |-> is_conman_counter + 1,
          stack |-> aset_keys,
          err |-> ""]
    ELSE LET entered == SubSeq(aset_keys, 1, failAt - 1)
         IN  [arraysets |-> ExitAllOf(EnterAllOf(arraysets, entered), entered),
              counter |-> is_conman_counter,
              stack |-> stack,
              err |-> "EnterError"]

\* Arraysets.__exit__: the accessors, the counter and the stack afterwards
ExitEffect(asets, counter, stk) ==
    [arraysets |-> ExitAllOf(asets, stk), counter |-> counter - 1, stack |-> <<>>]

\* the nesting bound leaves room for one more entry of the catalog
RoomToEnter ==
    /\ is_conman_counter < MaxDepth
    /\ \A n \in DOMAIN arraysets : arraysets[n].is_conman < MaxDepth

\* with catalog: (entry)
Enter(failAt) ==
    /\ Idle
    /\ pre' = Snapshot({})
    /\ RoomToEnter
    /\ failAt \in 0..Len(aset_keys)
    /\ LET e == EnterEffect(failAt)
       IN  /\ arraysets' = e.arraysets
           /\ is_conman_counter' = e.counter
           /\ stack' = e.stack
           /\ Return(MkResult("__enter__",
                              IF failAt = 0 THEN <<>> ELSE aset_keys[failAt],
                              e.err, "", <<>>))
    /\ UNCHANGED <<mode, aset_keys, nulled, dataenv, hashenv, txn, sample_counter,
                   deleted>>

\* with catalog: (exit)
Exit ==
    /\ Idle
    /\ pre' = Snapshot({})
    /\ is_conman_counter > 0
    /\ LET e == ExitEffect(arraysets, is_conman_counter, stack)
       IN  /\ arraysets' = e.arraysets
           /\ is_conman_counter' = e.counter
           /\ stack' = e.stack
    /\ Return(MkResult("__exit__", <<>>, "", "", <<>>))
    /\ UNCHANGED <<mode, aset_keys, nulled, dataenv, hashenv, txn, sample_counter,
                   deleted>>

\* with catalog[name]: (entry), through the proxy the caller holds
AsetEnter(name) ==
    /\ Idle
    /\ pre' = Snapshot({})
    /\ name \in DOMAIN arraysets
    /\ arraysets[name].is_conman < MaxDepth
    /\ arraysets[name].held < MaxHeld
    /\ arraysets' = [arraysets EXCEPT ![name] = [AccessorEnter(@) EXCEPT !.held = @ + 1]]
    /\ Return(MkResult("aset.__enter__", name, "", "", <<>>))
    /\ UNCHANGED <<mode, aset_keys, is_conman_counter, stack, nulled,
                   dataenv, hashenv, txn, sample_counter,
                   deleted>>

\* with catalog[name]: (exit)
AsetExit(name) ==
    /\ Idle
    /\ pre' = Snapshot({})
    /\ name \in DOMAIN arraysets
    /\ arraysets[name].held > 0
    /\ arraysets' = [arraysets EXCEPT ![name] = [AccessorExit(@) EXCEPT !.held = @ - 1]]
    /\ Return(MkResult("aset.__exit__", name, "", "", <<>>))
    /\ UNCHANGED <<mode, aset_keys, is_conman_counter, stack, nulled,
                   dataenv, hashenv, txn, sample_counter,
                   deleted>>

-----------------------------------------------------------------------------
(* init_arrayset.                                                          *)

\* the sample template resolved from prototype or shape + dtype
ResolvePrototype(args) ==
    IF args.prototype.kind # "none" THEN args.prototype
    ELSE np_zeros(args.shape, args.dtype)

\* variant: the rank and zero-dimension check is missing
InitCheckNoShape(name, args) ==
    IF (~is_suitable_user_key(name)) \/ (~is_ascii(name))
    THEN [err |-> "ValueError", why |-> "name"]
    ELSE IF name \in DOMAIN arraysets
    THEN [err |-> "LookupError", why |-> "exists"]
    ELSE IF args.prototype.kind # "none" /\ args.prototype.kind # "ndarray"
    THEN [err |-> "ValueError", why |-> "prototype"]
    ELSE IF args.prototype.kind # "none" /\ ~args.prototype.c_contiguous
    THEN [err |-> "ValueError", why |-> "contiguous"]
    ELSE IF args.prototype.kind = "none"
            /\ ~(args.shape.kind \in {"tuple", "list", "int"} /\ args.dtype # NoDtype)
    THEN [err |-> "ValueError", why |-> "shape_dtype"]
    ELSE IF ~parse_user_backend_opts(args.backend_opts, ResolvePrototype(args),
                 args.named_samples, args.variable_shape).ok
    THEN [err |-> "ValueError", why |-> "backend"]
    ELSE [err |-> "", why |-> ""]

\* variant: the check that the name is new is missing
InitCheckNoExists(name, args) ==
    IF (~is_suitable_user_key(name)) \/ (~is_ascii(name))
    THEN [err |-> "ValueError", why |-> "name"]
    ELSE IF args.prototype.kind # "none" /\ args.prototype.kind # "ndarray"
    THEN [err |-> "ValueError", why |-> "prototype"]
    ELSE IF args.prototype.kind # "none" /\ ~args.prototype.c_contiguous
    THEN [err |-> "ValueError", why |-> "contiguous"]
    ELSE IF args.prototype.kind = "none"
            /\ ~(args.shape.kind \in {"tuple", "list", "int"} /\ args.dtype # NoDtype)
    THEN [err |-> "ValueError", why |-> "shape_dtype"]
    ELSE IF (\E i \in 1..Len(ResolvePrototype(args).shape) :
                 ResolvePrototype(args).shape[i] = 0)
            \/ Len(ResolvePrototype(args).shape) > MaxRank
    THEN [err |-> "ValueError", why |-> "shape"]
    ELSE IF ~parse_user_backend_opts(args.backend_opts, ResolvePrototype(args),
                 args.named_samples, args.variable_shape).ok
    THEN [err |-> "ValueError", why |-> "backend"]
    ELSE [err |-> "", why |-> ""]

\* variant: the backend options are looked at before the shape
InitCheckBackendFirst(name, args) ==
    IF (~is_suitable_user_key(name)) \/ (~is_ascii(name))
    THEN [err |-> "ValueError", why |-> "name"]
    ELSE IF name \in DOMAIN arraysets
    THEN [err |-> "LookupError", why |-> "exists"]
    ELSE IF args.prototype.kind # "none" /\ args.prototype.kind # "ndarray"
    THEN [err |-> "ValueError", why |-> "prototype"]
    ELSE IF args.prototype.kind # "none" /\ ~args.prototype.c_contiguous
    THEN [err |-> "ValueError", why |-> "contiguous"]
    ELSE IF args.prototype.kind = "none"
            /\ ~(args.shape.kind \in {"tuple", "list", "int"} /\ args.dtype # NoDtype)
    THEN [err |-> "ValueError", why |-> "shape_dtype"]
    ELSE IF ~parse_user_backend_opts(args.backend_opts, ResolvePrototype(args),
                 args.named_samples, args.variable_shape).ok
    THEN [err |-> "ValueError", why |-> "backend"]
    ELSE IF (\E i \in 1..Len(ResolvePrototype(args).shape) :
                 ResolvePrototype(args).shape[i] = 0)
            \/ Len(ResolvePrototype(args).shape) > MaxRank
    THEN [err |-> "ValueError", why |-> "shape"]
    ELSE [err |-> "", why |-> ""]

\* the argument checks of init_arrayset, in the order the code makes them
InitCheck(name, args) ==
    IF (~is_suitable_user_key(name)) \/ (~is_ascii(name))
    THEN [err |-> "ValueError", why |-> "name"]
    ELSE IF name \in DOMAIN arraysets
    THEN [err |-> "LookupError", why |-> "exists"]
    ELSE IF args.prototype.kind # "none" /\ args.prototype.kind # "ndarray"
    THEN [err |-> "ValueError", why |-> "prototype"]
    ELSE IF args.prototype.kind # "none" /\ ~args.prototype.c_contiguous
    THEN [err |-> "ValueError", why |-> "contiguous"]
    ELSE IF args.prototype.kind = "none"
            /\ ~(args.shape.kind \in {"tuple", "list", "int"} /\ args.dtype # NoDtype)
    THEN [err |-> "ValueError", why |-> "shape_dtype"]
    ELSE LET prototype == ResolvePrototype(args)
         IN  IF (\E i \in 1..Len(prototype.shape) : prototype.shape[i] = 0)
                \/ Len(prototype.shape) > MaxRank
             THEN [err |-> "ValueError", why |-> "shape"]
             ELSE IF ~parse_user_backend_opts(args.backend_opts, prototype,
                          args.named_samples, args.variable_shape).ok
             THEN [err |-> "ValueError", why |-> "backend"]
             ELSE [err |-> "", why |-> ""]

\* the schema record value of a call whose checks passed
InitVal(args) ==
    LET prototype == ResolvePrototype(args)
        beopts == parse_user_backend_opts(args.backend_opts, prototype,
                                          args.named_samples, args.variable_shape)
    IN  InitSchemaVal(prototype, args.named_samples, args.variable_shape,
                      args.contains_subsamples, beopts)

\* variant: the hash entry is put without overwrite=False
InitPutsOverwrite(t, name, val, hash) ==
    [t EXCEPT !.data = Put(@, arrayset_record_schema_db_key_from_raw_key(name), val),
              !.hash = Put(@, hash_schema_db_key_from_raw_key(hash), val)]

\* the two writes of init_arrayset inside its write transaction
InitPuts(t, name, val, hash) ==
    [t EXCEPT !.data = Put(@, arrayset_record_schema_db_key_from_raw_key(name), val),
              !.hash = PutNoOverwrite(@, hash_schema_db_key_from_raw_key(hash), val)]

\* variant: a put without overwrite that finds the key present is an error
HashPutRaisesOnExisting(store, k) == k \in DOMAIN store

\* whether hashTxn.put(key, val, overwrite=False) raises: it returns False
\* when the key is present, and raises nothing
HashPutRaises(store, k) == FALSE

\* variant: the Sample generator is used whatever the descriptor says
InitAccessorAlwaysSample(name, val) ==
    MkAccessor("Sample", name, arrayset_record_schema_raw_val_from_db_val(val), TRUE)

\* the accessor init_arrayset stores under the new name
InitAccessor(name, val) ==
    GenerateAccessor(name, arrayset_record_schema_raw_val_from_db_val(val), TRUE)

\* init_arrayset: the capability check, the argument checks, then the
\* write transaction is begun
InitArraysetCall(name, args) ==
    /\ Idle
    /\ pre' = Snapshot(IF MethodCallable("init_arrayset") /\ ~any_is_conman
                        THEN {args} ELSE {})
    /\ IF ~MethodCallable("init_arrayset")
       THEN /\ Return(MkResult("init_arrayset", name, "TypeError", "", <<>>))
            /\ UNCHANGED txn
       ELSE IF any_is_conman
       THEN /\ Return(MkResult("init_arrayset", name, "PermissionError", "", <<>>))
            /\ UNCHANGED txn
       ELSE IF InitCheck(name, args).err # ""
       THEN /\ Return(MkResult("init_arrayset", name, InitCheck(name, args).err,
                               InitCheck(name, args).why, <<>>))
            /\ UNCHANGED txn
       ELSE /\ pc' = "init_put"
            /\ call' = [NoCall EXCEPT !.name = name, !.val = InitVal(args),
                                      !.hash = HashOfVal(InitVal(args))]
            /\ result' = NoResult
            /\ txn' = BeginWriterTxn(dataenv, hashenv)
    /\ UNCHANGED <<mode, arraysets, aset_keys, is_conman_counter, stack, nulled,
                   dataenv, hashenv, sample_counter,
                   deleted>>

\* init_arrayset: the schema record and the hash entry are written; a storage
\* failure leaves the transaction block by an exception, which abandons it
InitArraysetPut(fail) ==
    /\ pc = "init_put"
    /\ UNCHANGED pre
    /\ IF fail \/ HashPutRaises(txn.hash, hash_schema_db_key_from_raw_key(call.hash))
       THEN /\ txn' = NoTxn
            /\ dataenv' = AbortWriterTxn(dataenv, hashenv).data
            /\ hashenv' = AbortWriterTxn(dataenv, hashenv).hash
            /\ Return(MkResult("init_arrayset", call.name,
                               IF fail THEN "StorageError" ELSE "KeyExistsError", "", <<>>))
       ELSE /\ txn' = InitPuts(txn, call.name, call.val, call.hash)
            /\ pc' = "init_commit"
            /\ UNCHANGED <<call, result, dataenv, hashenv>>
    /\ UNCHANGED <<mode, arraysets, aset_keys, is_conman_counter, stack, nulled,
                   sample_counter,
                   deleted>>

\* init_arrayset: the write transaction block is left and commits
InitArraysetCommit ==
    /\ pc = "init_commit"
    /\ UNCHANGED pre
    /\ dataenv' = CommitWriterTxn(txn).data
    /\ hashenv' = CommitWriterTxn(txn).hash
    /\ txn' = NoTxn
    /\ pc' = "init_generate"
    /\ UNCHANGED <<mode, arraysets, aset_keys, is_conman_counter, stack, nulled,
                   call, result, sample_counter,
                   deleted>>

\* init_arrayset: the accessor is generated and stored in the mapping
InitArraysetGenerate(fail) ==
    /\ pc = "init_generate"
    /\ UNCHANGED pre
    /\ IF fail
       THEN /\ Return(MkResult("init_arrayset", call.name, "GeneratorError", "", <<>>))
            /\ UNCHANGED <<arraysets, aset_keys>>
       ELSE /\ arraysets' = [n \in DOMAIN arraysets \cup {call.name} |->
                                IF n = call.name THEN InitAccessor(call.name, call.val)
                                ELSE arraysets[n]]
            /\ aset_keys' = Append(aset_keys, call.name)
            /\ Return(MkResult("init_arrayset", call.name, "", "", call.name))
    /\ UNCHANGED <<mode, is_conman_counter, stack, nulled, dataenv, hashenv, txn,
                   sample_counter,
                   deleted>>

-----------------------------------------------------------------------------
(* delete and name-keyed removal.                                          *)

\* variant: the loop never looks at the prefix
ScanKeepNever(k, rangeKey) == FALSE

\* one pass of the loop of delete: the record under the cursor goes when its
\* key has the prefix, and the loop ends otherwise
ScanKeep(k, rangeKey) == ~StartsWith(k, rangeKey)

RECURSIVE ScanLoop(_, _, _, _)
\* the loop of delete from cursor position pos; fuel is the number of
\* cursor.delete() calls that succeed before the store fails (-1: it never fails)
ScanLoop(store, pos, rangeKey, fuel) ==
    IF pos = {} THEN [store |-> store, failed |-> FALSE]
    ELSE LET k == CHOOSE x \in pos : TRUE
         IN  IF ScanKeep(k, rangeKey) THEN [store |-> store, failed |-> FALSE]
             ELSE IF fuel = 0 THEN [store |-> store, failed |-> TRUE]
             ELSE ScanLoop(Del(store, k), NextPos(store, k), rangeKey,
                           IF fuel > 0 THEN fuel - 1 ELSE fuel)

\* variant: the scan is left out and delete removes the schema record only
DeleteScanEffectSkipped(store, aset_name, fuel) == [store |-> store, failed |-> FALSE]

\* the cursor block of delete on the transaction's view of the records store
DeleteScanEffect(store, aset_name, fuel) ==
    LET asetRangeKey == arrayset_record_count_range_key(aset_name)
    IN  ScanLoop(store, SetRange(store, asetRangeKey), asetRangeKey, fuel)

\* what the records store holds after the exit callback of delete ran on an
\* exception: the callback commits; a transaction the store has marked broken
\* cannot commit and is dropped
DeleteFailedExit(t, committed) ==
    IF committed THEN CommitWriterTxn(t).data ELSE AbortWriterTxn(dataenv, hashenv).data

\* variant: the lookup of the name raises with no exit callback registered
DeleteEntryNoCallback(op, aset_name) ==
    IF any_is_conman
    THEN /\ Return(MkResult(op, aset_name, "PermissionError", "", <<>>))
         /\ UNCHANGED <<txn, dataenv>>
    ELSE IF aset_name \notin DOMAIN arraysets
    THEN /\ txn' = BeginWriterTxn(dataenv, hashenv)
         /\ Return(MkResult(op, aset_name, "KeyError", "", <<>>))
         /\ UNCHANGED dataenv
    ELSE /\ txn' = BeginWriterTxn(dataenv, hashenv)
         /\ pc' = "delete_remove"
         /\ call' = [NoCall EXCEPT !.name = aset_name]
         /\ result' = [NoResult EXCEPT !.op = op]
         /\ UNCHANGED dataenv

\* variant: the name is not looked up before the accessor is removed
DeleteEntryNoLookup(op, aset_name) ==
    IF any_is_conman
    THEN /\ Return(MkResult(op, aset_name, "PermissionError", "", <<>>))
         /\ UNCHANGED <<txn, dataenv>>
    ELSE /\ txn' = BeginWriterTxn(dataenv, hashenv)
         /\ pc' = "delete_remove"
         /\ call' = [NoCall EXCEPT !.name = aset_name]
         /\ result' = [NoResult EXCEPT !.op = op]
         /\ UNCHANGED dataenv

\* delete up to the lookup of the name: capability check, transaction begun,
\* name looked up
DeleteEntry(op, aset_name) ==
    IF any_is_conman
    THEN /\ Return(MkResult(op, aset_name, "PermissionError", "", <<>>))
         /\ UNCHANGED <<txn, dataenv>>
    ELSE IF aset_name \notin DOMAIN arraysets
    THEN /\ dataenv' = CommitWriterTxn(BeginWriterTxn(dataenv, hashenv)).data
         /\ txn' = NoTxn
         /\ Return(MkResult(op, aset_name, "KeyError", "", <<>>))
    ELSE /\ txn' = BeginWriterTxn(dataenv, hashenv)
         /\ pc' = "delete_remove"
         /\ call' = [NoCall EXCEPT !.name = aset_name]
         /\ result' = [NoResult EXCEPT !.op = op]
         /\ UNCHANGED dataenv

\* catalog.delete(aset_name)
DeleteCall(aset_name) ==
    /\ Idle
    /\ pre' = Snapshot({})
    /\ IF ~MethodCallable("delete")
       THEN /\ Return(MkResult("delete", aset_name, "TypeError", "", <<>>))
            /\ UNCHANGED <<txn, dataenv>>
       ELSE DeleteEntry("delete", aset_name)
    /\ UNCHANGED <<mode, arraysets, aset_keys, is_conman_counter, stack, nulled,
                   hashenv, sample_counter,
                   deleted>>

\* del catalog[key]: Arraysets.__delitem__
DelItemCall(key) ==
    /\ Idle
    /\ pre' = Snapshot({})
    /\ IF ~SpecialMethodCallable("__delitem__")
       THEN /\ Return(MkResult("__delitem__", key, "TypeError", "", <<>>))
            /\ UNCHANGED <<txn, dataenv>>
       ELSE IF any_is_conman
       THEN /\ Return(MkResult("__delitem__", key, "PermissionError", "", <<>>))
            /\ UNCHANGED <<txn, dataenv>>
       ELSE IF ~MethodCallable("delete")
       THEN /\ Return(MkResult("__delitem__", key, "TypeError", "", <<>>))
            /\ UNCHANGED <<txn, dataenv>>
       ELSE DeleteEntry("__delitem__", key)
    /\ UNCHANGED <<mode, arraysets, aset_keys, is_conman_counter, stack, nulled,
                   hashenv, sample_counter,
                   deleted>>

\* delete: the accessor is closed and taken out of the mapping
DeleteRemove ==
    /\ pc = "delete_remove"
    /\ UNCHANGED pre
    /\ arraysets' = [n \in DOMAIN arraysets \ {call.name} |-> arraysets[n]]
    /\ aset_keys' = SeqWithout(aset_keys, call.name)
    /\ pc' = "delete_scan"
    /\ UNCHANGED <<mode, is_conman_counter, stack, nulled, dataenv, hashenv, txn,
                   call, result, sample_counter,
                   deleted>>

\* delete: the prefix scan; fuel >= 0 is a storage failure after that many
\* records were deleted, and committed tells what the exit callback achieved
DeleteScan(fuel, committed) ==
    /\ pc = "delete_scan"
    /\ UNCHANGED pre
    /\ fuel \in (-1)..(Cardinality(RecordsOf(txn.data, call.name)) - 1)
    /\ LET e == DeleteScanEffect(txn.data, call.name, fuel)
       IN  IF e.failed
           THEN /\ dataenv' = DeleteFailedExit([txn EXCEPT !.data = e.store], committed)
                /\ txn' = NoTxn
                /\ UNCHANGED deleted
                /\ Return(MkResult(result.op, call.name, "StorageError", "", <<>>))
           ELSE /\ committed
                /\ txn' = [txn EXCEPT !.data = e.store]
                /\ pc' = "delete_schema"
                /\ UNCHANGED <<dataenv, call, result, deleted>>
    /\ UNCHANGED <<mode, arraysets, aset_keys, is_conman_counter, stack, nulled,
                   hashenv, sample_counter>>

\* delete: the schema record is deleted, the transaction commits and the name
\* is returned; fail is a storage failure of the schema-record delete
DeleteSchema(fail, committed) ==
    /\ pc = "delete_schema"
    /\ UNCHANGED pre
    /\ IF fail
       THEN /\ dataenv' = DeleteFailedExit(txn, committed)
            /\ UNCHANGED deleted
            /\ Return(MkResult(result.op, call.name, "StorageError", "", <<>>))
       ELSE /\ committed
            /\ dataenv' = CommitWriterTxn(
                   [txn EXCEPT !.data =
                       Del(@, arrayset_record_schema_db_key_from_raw_key(call.name))]).data
            /\ deleted' = deleted \cup {call.name}
            /\ Return(MkResult(result.op, call.name, "", "", call.name))
    /\ txn' = NoTxn
    /\ UNCHANGED <<mode, arraysets, aset_keys, is_conman_counter, stack, nulled,
                   hashenv, sample_counter>>

-----------------------------------------------------------------------------
(* multi_add.                                                              *)

\* the arrays callers pass: 1 is a uint8 array of shape (2,), 2 a float32
\* array of shape (2, 3)
Arrays == {1, 2}
ArrShape(arr) == IF arr = 1 THEN <<2>> ELSE <<2, 3>>
ArrDtype(arr) == IF arr = 1 THEN 2 ELSE 11

\* accessor.add accepts an array that agrees with the schema of its arrayset
AddAccepts(a, arr) ==
    /\ ArrDtype(arr) = a.schema.schema_dtype
    /\ Len(ArrShape(arr)) = Len(a.schema.schema_max_shape)
    /\ IF a.schema.schema_is_var
       THEN \A i \in 1..Len(ArrShape(arr)) : ArrShape(arr)[i] <= a.schema.schema_max_shape[i]
       ELSE ArrShape(arr) = a.schema.schema_max_shape

\* accessor.add(name, arr): the sample-location record it writes
AddRecord(store, aset_name, sample, arr) ==
    Put(store, data_record_db_key(aset_name, sample), DataVal(10 + arr))

\* the mappings multi_add is called with: sequences of <<name, array>>
Mappings ==
    {<< <<NameX, 1>> >>,
     << <<NameX, 1>>, <<NameX2, 2>> >>,
     << <<NameX, 1>>, <<NameX2, 1>> >>,
     << <<NameY, 1>>, <<NameX, 1>>, <<NameBad, 2>> >>}

\* list(mapping.keys())
MappingKeys(mapping) == [i \in 1..Len(mapping) |-> mapping[i][1]]

\* variant: only the first name of the mapping is looked up
AllKeysExistFirstOnly(mapping) == mapping[1][1] \in DOMAIN arraysets

\* all([k in self._arraysets for k in mapping.keys()])
AllKeysExist(mapping) == \A i \in 1..Len(mapping) : mapping[i][1] \in DOMAIN arraysets

\* the names the KeyError of multi_add reports
MultiAddReported(mapping) == MappingKeys(mapping)

\* variant: multi_add leaves the opening of the context to its caller
MultiAddNeverEnters == FALSE

\* multi_add enters the catalog itself when it is not inside a context
MultiAddEnters == ~is_conman

\* the exit of multi_add's ExitStack: the catalog is left if multi_add entered it
MultiAddExit(entered, asets, counter, stk) ==
    IF entered THEN ExitEffect(asets, counter, stk)
    ELSE [arraysets |-> asets, counter |-> counter, stack |-> stk]

\* variant: a name of its own is made for every arrayset of the mapping
MultiAddInsertPerItemName(store, k, data_name, v) ==
    AddRecord(store, k, data_name \o k, v)

\* self._arraysets[k].add(data_name, v): every array goes under the one name
MultiAddInsert(store, k, data_name, v) == AddRecord(store, k, data_name, v)

\* variant: a failed insertion takes the earlier insertions of the call back
MultiAddFailureRollsBack(store, before) == before

\* the records store when an insertion raises: multi_add has no handler, the
\* exception leaves the loop and what was inserted stays
MultiAddFailure(store, before) == store

\* multi_add up to the generation of the sample name; failAt > 0: entering the
\* catalog fails at that accessor
MultiAddCall(mapping, failAt) ==
    /\ Idle
    /\ pre' = [Snapshot({}) EXCEPT !.mapping = mapping]
    /\ IF ~MethodCallable("multi_add")
       THEN /\ failAt = 0
            /\ Return(MkResult("multi_add", <<>>, "TypeError", "", <<>>))
            /\ UNCHANGED <<arraysets, is_conman_counter, stack, sample_counter>>
       ELSE /\ MultiAddEnters => RoomToEnter
            /\ failAt \in 0..(IF MultiAddEnters THEN Len(aset_keys) ELSE 0)
            /\ LET entered == MultiAddEnters
                   e == IF entered THEN EnterEffect(failAt)
                        ELSE [arraysets |-> arraysets, counter |-> is_conman_counter,
                              stack |-> stack, err |-> ""]
                   x == MultiAddExit(entered, e.arraysets, e.counter, e.stack)
               IN  IF e.err # ""
                   THEN /\ arraysets' = e.arraysets
                        /\ is_conman_counter' = e.counter
                        /\ stack' = e.stack
                        /\ Return(MkResult("multi_add", <<>>, e.err, "", <<>>))
                        /\ UNCHANGED sample_counter
                   ELSE IF ~AllKeysExist(mapping)
                   THEN /\ arraysets' = x.arraysets
                        /\ is_conman_counter' = x.counter
                        /\ stack' = x.stack
                        /\ Return([MkResult("multi_add", <<>>, "KeyError", "", <<>>)
                                       EXCEPT !.listed = MultiAddReported(mapping)])
                        /\ UNCHANGED sample_counter
                   ELSE /\ sample_counter < MaxSamples
                        /\ sample_counter' = sample_counter + 1
                        /\ arraysets' = e.arraysets
                        /\ is_conman_counter' = e.counter
                        /\ stack' = e.stack
                        /\ pc' = "multi_add_loop"
                        /\ call' = [NoCall EXCEPT !.items = mapping,
                                       !.data_name = generate_sample_name(sample_counter),
                                       !.entered = entered]
                        /\ result' = NoResult
    /\ UNCHANGED <<mode, aset_keys, nulled, dataenv, hashenv, txn,
                   deleted>>

\* multi_add: one pass of the loop over mapping.items(); fail: the delegated
\* insertion fails for a reason of its own
MultiAddStep(fail) ==
    /\ pc = "multi_add_loop"
    /\ UNCHANGED pre
    /\ call.items # <<>>
    /\ LET k == call.items[1][1]
           v == call.items[1][2]
           x == MultiAddExit(call.entered, arraysets, is_conman_counter, stack)
       IN  IF fail \/ ~AddAccepts(arraysets[k], v)
           THEN /\ arraysets' = x.arraysets
                /\ is_conman_counter' = x.counter
                /\ stack' = x.stack
                /\ Return(MkResult("multi_add", k,
                                   IF fail THEN "StorageError" ELSE "ValueError", "", <<>>))
                /\ dataenv' = MultiAddFailure(dataenv, pre.dataenv)
           ELSE /\ dataenv' = MultiAddInsert(dataenv, k, call.data_name, v)
                /\ call' = [call EXCEPT !.items = Tail(@)]
                /\ UNCHANGED <<arraysets, is_conman_counter, stack, pc, result>>
    /\ UNCHANGED <<mode, aset_keys, nulled, hashenv, txn, sample_counter,
                   deleted>>

\* multi_add: the loop is over, the ExitStack closes and the name is returned
MultiAddReturn ==
    /\ pc = "multi_add_loop"
    /\ UNCHANGED pre
    /\ call.items = <<>>
    /\ LET x == MultiAddExit(call.entered, arraysets, is_conman_counter, stack)
       IN  /\ arraysets' = x.arraysets
           /\ is_conman_counter' = x.counter
           /\ stack' = x.stack
    /\ Return(MkResult("multi_add", <<>>, "", "", call.data_name))
    /\ UNCHANGED <<mode, aset_keys, nulled, dataenv, hashenv, txn, sample_counter,
                   deleted>>

-----------------------------------------------------------------------------
(* The catalog as a state machine.                                         *)

Next ==
    \/ \E f \in 0..2 : FromStagingArea(f)
    \/ \E f \in 0..2 : FromCommit(f)
    \/ \E k \in {NameX}, v \in {"accessor", "array"} : SetItem(k, v)
    \/ \E f \in 0..Cardinality(ValidNames) : Enter(f)
    \/ Exit
    \/ \E n \in ValidNames : AsetEnter(n)
    \/ \E n \in ValidNames : AsetExit(n)
    \/ \E c \in InitCalls : InitArraysetCall(c[1], c[2])
    \/ \E f \in BOOLEAN : InitArraysetPut(f)
    \/ InitArraysetCommit
    \/ \E f \in BOOLEAN : InitArraysetGenerate(f)
    \/ \E n \in ValidNames : DeleteCall(n)
    \/ \E n \in {NameX} : DelItemCall(n)
    \/ DeleteRemove
    \/ \E fuel \in (-1)..2, c \in BOOLEAN : DeleteScan(fuel, c)
    \/ \E f \in BOOLEAN, c \in BOOLEAN : DeleteSchema(f, c)
    \/ \E m \in Mappings, f \in 0..Cardinality(ValidNames) : MultiAddCall(m, f)
    \/ \E f \in BOOLEAN : MultiAddStep(f)
    \/ MultiAddReturn
    \/ Resume

Spec == Init /\ [][Next]_vars

-----------------------------------------------------------------------------
(* Properties of the structural operations.  A property about a call is    *)
(* stated on the state in which the call has returned: result is its       *)
(* outcome and pre is what it found when it began.                         *)

InitPcs == {"init_put", "init_commit", "init_generate"}
DeletePcs == {"delete_remove", "delete_scan", "delete_schema"}
StructuralOps == {"init_arrayset", "delete", "__delitem__"}

InitReturned == pc = "returned" /\ result.op = "init_arrayset"
DeleteReturned == pc = "returned" /\ result.op \in {"delete", "__delitem__"}

\* the aggregate scoped-access state the call found
PreAnyConman ==
    pre.counter # 0 \/ \E n \in DOMAIN pre.arraysets : pre.arraysets[n].is_conman # 0

\* the argument list of the init_arrayset call in progress or returned
PreArgs == CHOOSE a \in pre.args : TRUE

MappingUnchanged == arraysets = pre.arraysets /\ aset_keys = pre.aset_keys
StoresUnchanged == dataenv = pre.dataenv /\ hashenv = pre.hashenv

\* the shape a call registers: that of the prototype, or the shape argument
RegisteredShape(a) ==
    IF a.prototype.kind = "ndarray" THEN a.prototype.shape ELSE a.shape.dims

\* the element type a call registers
RegisteredDtype(a) ==
    IF a.prototype.kind = "ndarray" THEN a.prototype.dtype ELSE a.dtype[1]

\* C1: in a write-enabled catalog, init_arrayset, delete and del catalog[name]
\* called while the counter of the catalog or of any contained accessor is
\* nonzero take no step of their own, return PermissionError, and leave the
\* mapping, the records store and the hash store as they were.
C1_ScopedAccessRefusesStructuralOps ==
    (mode = "a" /\ PreAnyConman) =>
        /\ pc \notin (InitPcs \cup DeletePcs)
        /\ (pc = "returned" /\ result.op \in StructuralOps) =>
               /\ result.err = "PermissionError"
               /\ MappingUnchanged
               /\ StoresUnchanged

\* C1 witness: a delete refused although the counter of the catalog itself is
\* zero, because an accessor is inside its own context
C1_Witness ==
    /\ DeleteReturned
    /\ mode = "a"
    /\ result.err = "PermissionError"
    /\ pre.counter = 0
    /\ result.name \in DOMAIN arraysets
    /\ \E n \in DOMAIN arraysets : arraysets[n].is_conman # 0

\* C2 (as the specification states it): in a read-mode catalog init_arrayset,
\* delete, multi_add and name-keyed assignment are each rejected with
\* PermissionError whatever the arguments, and nothing is mutated.
C2_ReadModeRejectsWithCapabilityViolation ==
    (pc = "returned" /\ mode = "r"
         /\ result.op \in {"init_arrayset", "delete", "multi_add", "__setitem__"}) =>
        /\ result.err = "PermissionError"
        /\ MappingUnchanged
        /\ StoresUnchanged

\* C3: catalog[name] = value returns PermissionError in read and in write
\* mode, with or without a context open, and never changes the mapping.
C3_SetItemAlwaysRefused ==
    (pc = "returned" /\ result.op = "__setitem__") =>
        /\ result.err = "PermissionError"
        /\ MappingUnchanged
        /\ StoresUnchanged

\* C3 witness: an assignment refused in a read-mode catalog that holds an
\* arrayset and is inside a context
C3_Witness ==
    /\ pc = "returned"
    /\ result.op = "__setitem__"
    /\ result.err = "PermissionError"
    /\ mode = "r"
    /\ pre.counter > 0
    /\ result.name \in DOMAIN arraysets

\* C4: init_arrayset writes the schema record and the hash entry in one write
\* transaction, nothing is visible in the stores or the mapping before it
\* commits, the accessor enters the mapping only after the commit, and after
\* a successful call lookup by name gives an accessor of the variant chosen by
\* contains_subsamples whose descriptor is the registered shape, type and
\* flags, with every other entry and every other record as before.
C4_InitArraysetCreates ==
    /\ pc \in {"init_put", "init_commit"} =>
           /\ txn.active
           /\ StoresUnchanged
           /\ MappingUnchanged
    /\ pc = "init_commit" =>
           /\ arrayset_record_schema_db_key_from_raw_key(call.name) \in DOMAIN txn.data
           /\ txn.data[arrayset_record_schema_db_key_from_raw_key(call.name)] = call.val
           /\ hash_schema_db_key_from_raw_key(call.hash) \in DOMAIN txn.hash
    /\ pc = "init_generate" =>
           /\ ~txn.active
           /\ MappingUnchanged
           /\ call.name \notin DOMAIN arraysets
           /\ arrayset_record_schema_db_key_from_raw_key(call.name) \in DOMAIN dataenv
           /\ hash_schema_db_key_from_raw_key(call.hash) \in DOMAIN hashenv
    /\ (InitReturned /\ result.err = "") =>
           /\ pre.args # {}
           /\ result.name \notin DOMAIN pre.arraysets
           /\ get(result.name).err = ""
           /\ \A acc \in get(result.name).accessor :
                  /\ acc.variant = IF PreArgs.contains_subsamples
                                   THEN "Subsample" ELSE "Sample"
                  /\ acc.aset_name = result.name
                  /\ acc.writeable
                  /\ acc.schema.schema_max_shape = RegisteredShape(PreArgs)
                  /\ acc.schema.schema_dtype = RegisteredDtype(PreArgs)
                  /\ acc.schema.schema_is_named = PreArgs.named_samples
                  /\ acc.schema.schema_is_var = PreArgs.variable_shape
                  /\ acc.schema.schema_contains_subsamples = PreArgs.contains_subsamples
                  /\ SchemaSpecOf(dataenv, result.name) = acc.schema
                  /\ hash_schema_db_key_from_raw_key(acc.schema.schema_hash)
                         \in DOMAIN hashenv
           /\ \A n \in DOMAIN pre.arraysets :
                  n \in DOMAIN arraysets /\ arraysets[n] = pre.arraysets[n]
           /\ DOMAIN arraysets = DOMAIN pre.arraysets \cup {result.name}
           /\ \A k \in DOMAIN pre.dataenv :
                  k # arrayset_record_schema_db_key_from_raw_key(result.name) =>
                      k \in DOMAIN dataenv /\ dataenv[k] = pre.dataenv[k]
           /\ \A k \in DOMAIN pre.hashenv :
                  k \in DOMAIN hashenv /\ hashenv[k] = pre.hashenv[k]

\* C4 witness: a Subsample arrayset created next to an existing arrayset
C4_Witness ==
    /\ InitReturned
    /\ result.err = ""
    /\ pre.args = {ArgsASub}
    /\ DOMAIN pre.arraysets # {}
    /\ arraysets[result.name].variant = "Subsample"

\* an arrayset the call found under another name with the descriptor the
\* call registers
SameDescriptorElsewhere(m) ==
    /\ m \in DOMAIN pre.arraysets
    /\ m # result.name
    /\ pre.arraysets[m].schema = arrayset_record_schema_raw_val_from_db_val(ValOf(PreArgs))

\* C5: a registration whose descriptor is already registered under another
\* name never fails on the hash entry that is already there; when it succeeds
\* both names are entries of the catalog with equal descriptors, and the hash
\* store holds the one entry it held before.
C5_SharedHashEntry ==
    (InitReturned /\ pre.args # {} /\ result.why = ""
         /\ \E m \in DOMAIN pre.arraysets : SameDescriptorElsewhere(m)) =>
        /\ result.err \in {"", "StorageError", "GeneratorError"}
        /\ hashenv = pre.hashenv
        /\ hash_schema_db_key_from_raw_key(HashOfVal(ValOf(PreArgs))) \in DOMAIN hashenv
        /\ result.err = "" =>
               \A m \in DOMAIN pre.arraysets :
                   SameDescriptorElsewhere(m) =>
                       /\ {m, result.name} \subseteq DOMAIN arraysets
                       /\ arraysets[m].schema = arraysets[result.name].schema
                       /\ arraysets[m] = pre.arraysets[m]

\* C5 witness: the second registration of one descriptor has succeeded, the
\* first made from a prototype and the second from shape and dtype
C5_Witness ==
    /\ InitReturned
    /\ result.err = ""
    /\ pre.args = {ArgsAInt}
    /\ \E m \in DOMAIN pre.arraysets : SameDescriptorElsewhere(m)
    /\ Cardinality(DOMAIN arraysets) = 2

\* a name init_arrayset does not accept
BadName(name) ==
    \/ Len(name) > MaxNameLen
    \/ \E i \in 1..Len(name) : ~IsNameChar(name[i])

\* an argument list that fails one of the validation preconditions
BadArgs(a) ==
    \/ a.prototype.kind = "none" /\ (a.shape.kind = "none" \/ a.dtype = NoDtype)
    \/ a.prototype.kind = "ndarray" /\ ~a.prototype.c_contiguous
    \/ /\ a.prototype.kind = "ndarray" \/ (a.shape.kind # "none" /\ a.dtype # NoDtype)
       /\ \/ Len(RegisteredShape(a)) > MaxRank
          \/ \E i \in 1..Len(RegisteredShape(a)) : RegisteredShape(a)[i] = 0
    \/ a.backend_opts # NoBackendOpts /\ a.backend_opts[1] \notin BackendCodes

\* C6: an init_arrayset call with a malformed or over-long name, no template,
\* a non-contiguous prototype, rank above 31, a zero-sized dimension or an
\* invalid backend option opens no write transaction and returns an error
\* (ValueError when the name is not already taken) with the mapping, the
\* records store and the hash store unchanged.
C6_ValidationBeforeAnyWrite ==
    /\ pc \in InitPcs => (~BadName(call.name) /\ ~BadArgs(PreArgs))
    /\ (InitReturned /\ pre.args # {}
            /\ (BadName(result.name) \/ BadArgs(PreArgs))) =>
           /\ result.err \in {"ValueError", "LookupError"}
           /\ result.name \notin DOMAIN pre.arraysets => result.err = "ValueError"
           /\ ~txn.active
           /\ MappingUnchanged
           /\ StoresUnchanged

\* C6 witness: a rank-32 shape refused by a catalog whose stores hold data
C6_Witness ==
    /\ InitReturned
    /\ result.err = "ValueError"
    /\ pre.args = {ArgsRank32}
    /\ DOMAIN dataenv # {}
    /\ result.name \notin DOMAIN arraysets

\* C7: init_arrayset with a name the catalog already holds opens no write
\* transaction, returns LookupError, and leaves the accessor of that name,
\* its schema record and its sample records as they were.
C7_ExistingNameConflict ==
    /\ pc \in InitPcs => call.name \notin DOMAIN pre.arraysets
    /\ (InitReturned /\ pre.args # {} /\ result.name \in DOMAIN pre.arraysets) =>
           /\ result.err = "LookupError"
           /\ result.name \in DOMAIN arraysets
           /\ arraysets[result.name] = pre.arraysets[result.name]
           /\ MappingUnchanged
           /\ StoresUnchanged

\* C7 witness: a conflicting registration, with other flags, of a name that
\* has sample records
C7_Witness ==
    /\ InitReturned
    /\ result.err = "LookupError"
    /\ pre.args = {ArgsASub}
    /\ arraysets[result.name].variant = "Sample"
    /\ RecordsOf(dataenv, result.name) # {}

\* C8: a successful delete(x) removes x from the mapping, its schema record
\* and every record under its record-count range key, and leaves every other
\* mapping entry and every other record of the records store, those of an
\* arrayset named x2 included, as they were.
C8_DeleteRemovesOnlyItsOwn ==
    (DeleteReturned /\ result.err = "") =>
        /\ result.ret = result.name
        /\ result.name \in DOMAIN pre.arraysets
        /\ result.name \notin DOMAIN arraysets
        /\ \A i \in 1..Len(aset_keys) : aset_keys[i] # result.name
        /\ arrayset_record_schema_db_key_from_raw_key(result.name) \notin DOMAIN dataenv
        /\ RecordsOf(dataenv, result.name) = {}
        /\ \A n \in DOMAIN pre.arraysets \ {result.name} :
               /\ n \in DOMAIN arraysets
               /\ arraysets[n] = pre.arraysets[n]
               /\ RecordsOf(dataenv, n) = RecordsOf(pre.dataenv, n)
        /\ DOMAIN dataenv \subseteq DOMAIN pre.dataenv
        /\ \A k \in DOMAIN pre.dataenv :
               (k # arrayset_record_schema_db_key_from_raw_key(result.name)
                    /\ ~StartsWith(k, arrayset_record_count_range_key(result.name))) =>
                   k \in DOMAIN dataenv /\ dataenv[k] = pre.dataenv[k]
        /\ hashenv = pre.hashenv

\* C8 witness: x with two samples deleted while x2, whose name begins with
\* x, keeps its schema record and its sample
C8_Witness ==
    /\ DeleteReturned
    /\ result.err = ""
    /\ result.name = NameX
    /\ Cardinality(RecordsOf(pre.dataenv, NameX)) = 2
    /\ NameX2 \in DOMAIN arraysets
    /\ RecordsOf(dataenv, NameX2) # {}

\* C9: delete(name) in a write-enabled catalog with no context open, for a
\* name the catalog does not hold, returns KeyError and leaves the records
\* store and the mapping as they were; no step of delete beyond the lookup
\* is taken.
C9_DeleteMissingName ==
    /\ pc \in DeletePcs => call.name \in DOMAIN pre.arraysets
    /\ (DeleteReturned /\ mode = "a" /\ ~PreAnyConman
            /\ result.name \notin DOMAIN pre.arraysets) =>
           /\ result.err = "KeyError"
           /\ ~txn.active
           /\ MappingUnchanged
           /\ StoresUnchanged

\* C9 witness: a missing name refused by a catalog that holds another
\* arrayset with records
C9_Witness ==
    /\ DeleteReturned
    /\ result.err = "KeyError"
    /\ DOMAIN arraysets # {}
    /\ \E n \in DOMAIN arraysets : RecordsOf(dataenv, n) # {}

\* C10 (as the specification states it): a delete that fails after its write
\* transaction began leaves the records store as it was and the name still in
\* the mapping.
C10_DeleteAllOrNothing ==
    (DeleteReturned /\ result.err = "StorageError") =>
        /\ result.name \in DOMAIN arraysets
        /\ MappingUnchanged
        /\ dataenv = pre.dataenv

MultiAddReturned == pc = "returned" /\ result.op = "multi_add"

\* the arrayset names of a mapping
MappingNames(m) == {m[i][1] : i \in 1..Len(m)}

\* the sample-location keys a mapping gets under the sample name k
MappingRecords(m, k) == {data_record_db_key(m[i][1], k) : i \in 1..Len(m)}

\* C11: a successful multi_add returns one identifier k that no record of the
\* store used before; under k every arrayset of the mapping holds its own
\* array, and these records are the only change of the records store, so an
\* arrayset the mapping does not name receives nothing.
C11_MultiAddSharedName ==
    (MultiAddReturned /\ result.err = "") =>
        /\ Len(pre.mapping) > 0
        /\ MappingNames(pre.mapping) \subseteq DOMAIN arraysets
        /\ \A i \in 1..Len(pre.mapping) :
               LET key == data_record_db_key(pre.mapping[i][1], result.ret)
               IN  /\ key \notin DOMAIN pre.dataenv
                   /\ key \in DOMAIN dataenv
                   /\ dataenv[key] = DataVal(10 + pre.mapping[i][2])
        /\ \A n \in DOMAIN arraysets :
               data_record_db_key(n, result.ret) \notin DOMAIN pre.dataenv
        /\ DOMAIN dataenv = DOMAIN pre.dataenv \cup MappingRecords(pre.mapping, result.ret)
        /\ \A key \in DOMAIN pre.dataenv : dataenv[key] = pre.dataenv[key]
        /\ \A n \in DOMAIN arraysets \ MappingNames(pre.mapping) :
               RecordsOf(dataenv, n) = RecordsOf(pre.dataenv, n)
        /\ hashenv = pre.hashenv
        /\ MappingUnchanged

\* C11 witness: two arraysets that already hold samples each get their own
\* array under the one returned name
C11_Witness ==
    /\ MultiAddReturned
    /\ result.err = ""
    /\ pre.mapping = << <<NameX, 1>>, <<NameX2, 2>> >>
    /\ RecordsOf(pre.dataenv, NameX) # {}
    /\ dataenv[data_record_db_key(NameX, result.ret)] = DataVal(11)
    /\ dataenv[data_record_db_key(NameX2, result.ret)] = DataVal(12)

\* the names of a mapping the catalog did not hold when the call began
UnknownNames(m) == {n \in MappingNames(m) : n \notin DOMAIN pre.arraysets}

FailedAt == CHOOSE j \in 1..Len(pre.mapping) : pre.mapping[j][1] = result.name

\* the sample name of the multi_add call that last generated one
LastSampleName == generate_sample_name(sample_counter - 1)

\* C13: when the insertion into the i-th arrayset of the mapping fails,
\* multi_add returns that error and no identifier; the samples inserted under
\* the shared name into the arraysets before i are in the records store, the
\* i-th and later arraysets have none, and every earlier record is as it was.
C13_MultiAddNoRollback ==
    (MultiAddReturned /\ result.err \in {"ValueError", "StorageError"}) =>
        /\ result.ret = <<>>
        /\ result.name \in MappingNames(pre.mapping)
        /\ \A j \in 1..(FailedAt - 1) :
               LET key == data_record_db_key(pre.mapping[j][1], LastSampleName)
               IN  /\ key \notin DOMAIN pre.dataenv
                   /\ key \in DOMAIN dataenv
                   /\ dataenv[key] = DataVal(10 + pre.mapping[j][2])
        /\ \A j \in FailedAt..Len(pre.mapping) :
               data_record_db_key(pre.mapping[j][1], LastSampleName) \notin DOMAIN dataenv
        /\ \A key \in DOMAIN pre.dataenv :
               key \in DOMAIN dataenv /\ dataenv[key] = pre.dataenv[key]

\* C13 witness: the array for x2 is refused for its type after the array for
\* x was inserted, and the sample of x is still there
C13_Witness ==
    /\ MultiAddReturned
    /\ result.err = "ValueError"
    /\ result.name = NameX2
    /\ pre.mapping = << <<NameX, 1>>, <<NameX2, 1>> >>
    /\ data_record_db_key(NameX, LastSampleName) \in DOMAIN dataenv
    /\ data_record_db_key(NameX, LastSampleName) \notin DOMAIN pre.dataenv

FactoryReturned ==
    pc = "returned" /\ result.op \in {"_from_staging_area", "_from_commit"}

\* the schema records of a store
SchemaKeys(store) == {k \in DOMAIN store : StartsWith(k, K_SCHEMA)}

\* the names that have a schema record in a store
StoredNames(store) ==
    {SubSeq(k, Len(K_SCHEMA) + 1, Len(k)) : k \in SchemaKeys(store)}

\* C14: a factory that returns a catalog returns one with exactly one entry
\* per schema descriptor of the store, each of the variant its descriptor's
\* contains_subsamples flag selects and carrying that descriptor; the staging
\* factory gives a write-mode catalog of write-bound accessors, the commit
\* factory a read-mode catalog of read-bound accessors, and a read-mode
\* catalog answers every structural operation with an error and no change.
C14_FactoryReconstruction ==
    /\ (FactoryReturned /\ result.err = "") =>
           /\ mode = IF result.op = "_from_staging_area" THEN "a" ELSE "r"
           /\ DOMAIN arraysets = StoredNames(dataenv)
           /\ Cardinality(DOMAIN arraysets) = Cardinality(SchemaKeys(dataenv))
           /\ {aset_keys[i] : i \in 1..Len(aset_keys)} = DOMAIN arraysets
           /\ Len(aset_keys) = Cardinality(DOMAIN arraysets)
           /\ is_conman_counter = 0
           /\ \A n \in DOMAIN arraysets :
                  /\ arraysets[n].aset_name = n
                  /\ arraysets[n].schema = SchemaSpecOf(dataenv, n)
                  /\ arraysets[n].variant =
                         IF SchemaSpecOf(dataenv, n).schema_contains_subsamples
                         THEN "Subsample" ELSE "Sample"
                  /\ arraysets[n].is_conman = 0
           /\ StoresUnchanged
    /\ \A n \in DOMAIN arraysets : arraysets[n].writeable <=> (mode = "a")
    /\ (pc = "returned" /\ mode = "r" /\ result.op \in StructuralOps) =>
           /\ result.err # ""
           /\ MappingUnchanged
           /\ StoresUnchanged
    /\ mode = "r" => pc \notin (InitPcs \cup DeletePcs)

\* C14 witness: a catalog rebuilt from a commit store of two descriptors, one
\* of them with subsamples, has refused to create an arrayset
C14_Witness ==
    /\ pc = "returned"
    /\ mode = "r"
    /\ result.op = "init_arrayset"
    /\ result.err # ""
    /\ Cardinality(DOMAIN arraysets) = 2
    /\ arraysets[NameX].variant = "Sample"
    /\ arraysets[NameX2].variant = "Subsample"
    /\ ~arraysets[NameX2].writeable

\* C15 (as the specification states it): whenever no call is running and
\* every entry of the catalog's context has been matched by an exit, each
\* accessor's counter is back to what it was before the first entry (the
\* contexts the caller holds on that accessor itself), so that with none of
\* those held structural operations are permitted.
C15_ScopedAccessBalanced ==
    (pc \in {"idle", "returned"} /\ is_conman_counter = 0) =>
        \A n \in DOMAIN arraysets : arraysets[n].is_conman = arraysets[n].held

\* C16: no step of the catalog removes an entry of the hash store or changes
\* the value stored under a hash that has one.
C16_HashStoreWriteOnce ==
    [][\A k \in DOMAIN hashenv : k \in DOMAIN hashenv' /\ hashenv'[k] = hashenv[k]]_vars

\* C16 witness: a registration has succeeded whose hash already had an entry
\* holding another encoding than the one the call registers, and the entry
\* is as it was
C16_Witness ==
    /\ InitReturned
    /\ result.err = ""
    /\ hash_schema_db_key_from_raw_key(HashOfVal(ValOf(PreArgs))) \in DOMAIN pre.hashenv
    /\ pre.hashenv[hash_schema_db_key_from_raw_key(HashOfVal(ValOf(PreArgs)))]
           # ValOf(PreArgs)
    /\ hashenv = pre.hashenv

\* C17 (as the specification states it): in every state the hash store holds,
\* under the schema hash of every arrayset of the catalog, the encoding of
\* that arrayset's own descriptor.
C17_HashEntryIsOwnDescriptor ==
    \A n \in DOMAIN arraysets :
        LET hk == hash_schema_db_key_from_raw_key(arraysets[n].schema.schema_hash)
        IN  /\ hk \in DOMAIN hashenv
            /\ arrayset_record_schema_raw_val_from_db_val(hashenv[hk]) = arraysets[n].schema

\* the earliest precondition of init_arrayset, after the scoped-access one,
\* that a call violates ("" when it violates none); present is the set of
\* names the catalog holds
EarliestViolated(name, a, present) ==
    IF BadName(name) THEN "name"
    ELSE IF name \in present THEN "exists"
    ELSE IF a.prototype.kind \notin {"none", "ndarray"} THEN "prototype"
    ELSE IF a.prototype.kind = "ndarray" /\ ~a.prototype.c_contiguous THEN "contiguous"
    ELSE IF a.prototype.kind = "none" /\ (a.shape.kind = "none" \/ a.dtype = NoDtype)
    THEN "shape_dtype"
    ELSE IF \/ Len(RegisteredShape(a)) > MaxRank
            \/ \E i \in 1..Len(RegisteredShape(a)) : RegisteredShape(a)[i] = 0
    THEN "shape"
    ELSE IF a.backend_opts # NoBackendOpts /\ a.backend_opts[1] \notin BackendCodes
    THEN "backend"
    ELSE ""

\* C18: in a write-enabled catalog init_arrayset reports PermissionError when
\* a context is open anywhere, whatever the name and the arguments; otherwise
\* it reports the earliest violated precondition in the order name, name not
\* present, template, shape, backend options (LookupError for a name that is
\* present, ValueError for the others), and it goes on to write only when
\* none is violated.
C18_PreconditionOrder ==
    /\ (InitReturned /\ mode = "a" /\ PreAnyConman) =>
           result.err = "PermissionError"
    /\ (InitReturned /\ mode = "a" /\ ~PreAnyConman) =>
           /\ pre.args # {}
           /\ LET v == EarliestViolated(result.name, PreArgs, DOMAIN pre.arraysets)
              IN  /\ result.why = v
                  /\ v = "exists" => result.err = "LookupError"
                  /\ v \notin {"", "exists"} => result.err = "ValueError"
                  /\ v = "" => result.err \notin {"PermissionError", "LookupError",
                                                  "ValueError"}
    /\ pc \in InitPcs =>
           /\ ~PreAnyConman
           /\ EarliestViolated(call.name, PreArgs, DOMAIN pre.arraysets) = ""

\* C18 witness: a call whose shape has a zero dimension and whose backend
\* option is invalid is refused for the shape
C18_Witness ==
    /\ InitReturned
    /\ mode = "a"
    /\ pre.args = {ArgsZeroDimBadBackend}
    /\ result.err = "ValueError"
    /\ result.why = "shape"

\* C19: multi_add has entered the catalog's context itself exactly when the
\* catalog's counter was zero at the call; while it inserts, the catalog's
\* counter is nonzero and, when it entered, every accessor is entered once
\* more than before; and however it returns, the catalog's counter and every
\* accessor's counter are what they were when it was called.
C19_MultiAddScope ==
    /\ pc = "multi_add_loop" =>
           /\ call.entered <=> (pre.counter = 0)
           /\ is_conman_counter # 0
           /\ is_conman_counter = pre.counter + (IF call.entered THEN 1 ELSE 0)
           /\ \A n \in DOMAIN arraysets :
                  arraysets[n].is_conman =
                      pre.arraysets[n].is_conman + (IF call.entered THEN 1 ELSE 0)
    /\ MultiAddReturned =>
           /\ is_conman_counter = pre.counter
           /\ DOMAIN arraysets = DOMAIN pre.arraysets
           /\ \A n \in DOMAIN arraysets :
                  arraysets[n].is_conman = pre.arraysets[n].is_conman

\* C19 witness: called outside any context of the catalog while the caller
\* holds one on an accessor, multi_add has failed at an insertion and the
\* counters are those of before
C19_Witness ==
    /\ MultiAddReturned
    /\ result.err = "ValueError"
    /\ pre.counter = 0
    /\ is_conman_counter = 0
    /\ \E n \in DOMAIN arraysets : arraysets[n].is_conman = 1
    /\ DOMAIN dataenv # DOMAIN pre.dataenv

\* C20: a factory whose accessor generator fails at a descriptor returns that
\* error and no catalog: no instance exists afterwards, with or without the
\* accessors built before the failure; and a factory that does return a
\* catalog has an accessor for every schema descriptor of the store.
C20_FactoryAllOrNothing ==
    /\ (FactoryReturned /\ result.err # "") =>
           /\ result.name \in StoredNames(dataenv)
           /\ mode = "new"
           /\ arraysets = <<>>
           /\ aset_keys = <<>>
           /\ nulled = {}
           /\ StoresUnchanged
    /\ (FactoryReturned /\ result.err = "") =>
           /\ Constructed
           /\ StoredNames(dataenv) \subseteq DOMAIN arraysets
    /\ mode = "new" => (arraysets = <<>> /\ pc \in {"idle", "returned"})

\* C20 witness: the generator has failed at the second of two descriptors,
\* after the accessor of the first was built, and there is no catalog
C20_Witness ==
    /\ FactoryReturned
    /\ result.err = "GeneratorError"
    /\ result.name = NameX2
    /\ NameX \in StoredNames(dataenv)
    /\ mode = "new"

\* C21: every write transaction begun by init_arrayset or delete is ended,
\* by commit or by being abandoned, before the call returns, on the normal
\* path and on every error path (the KeyError of delete for a missing name
\* included): a write transaction is open only while one of the two calls is
\* between its begin and the end of its transaction block.
C21_WriteTxnEnded ==
    /\ txn.active => pc \in {"init_put", "init_commit"} \cup DeletePcs
    /\ pc \in {"init_put", "init_commit"} \cup DeletePcs => txn.active
    /\ pc \in {"idle", "returned", "init_generate"} => txn = NoTxn

\* C21 witness: a delete has returned a storage failure raised inside its
\* transaction block, after records were deleted, and no transaction is open
C21_Witness ==
    /\ DeleteReturned
    /\ result.err = "StorageError"
    /\ result.name \notin DOMAIN arraysets
    /\ ~txn.active

\* C22 (as the specification states it): in a write-enabled catalog, whenever
\* no call is in progress, the names of the mapping are the names that have a
\* schema record in the records store, after successful and after failed
\* init_arrayset and delete calls alike.
C22_MappingMatchesSchemaRecords ==
    (mode = "a" /\ pc \in {"idle", "returned"}) =>
        DOMAIN arraysets = StoredNames(dataenv)

\* a catalog entry that failed: with catalog: itself, or the entry multi_add
\* makes on its own
EnterFailed ==
    /\ pc = "returned"
    /\ result.op \in {"__enter__", "multi_add"}
    /\ result.err = "EnterError"

\* C23: when entering the catalog's context fails while one of the accessors
\* is being entered, the accessors entered before it by that call are exited
\* again and the catalog's counter is not incremented: every accessor's
\* counter, the catalog's counter and the stack it keeps are what they were
\* before the call.
C23_FailedEntryUnwinds ==
    EnterFailed =>
        /\ arraysets = pre.arraysets
        /\ is_conman_counter = pre.counter
        /\ stack = pre.stack
        /\ any_is_conman <=> PreAnyConman

\* C23 witness: the entry failed at the second accessor, after the first had
\* been entered, inside a context of the catalog that is already open
C23_Witness ==
    /\ EnterFailed
    /\ result.op = "__enter__"
    /\ Len(aset_keys) = 2
    /\ result.name = aset_keys[2]
    /\ is_conman_counter = 1
    /\ arraysets[aset_keys[1]].is_conman = 1

\* C24: an init_arrayset(name) that succeeds after a delete(name) that
\* succeeded finds and leaves no sample-location record under the name: the
\* new arrayset starts without samples of the deleted one.
C24_ReinitStartsEmpty ==
    /\ (InitReturned /\ result.err = "" /\ result.name \in deleted) =>
           /\ result.name \in DOMAIN arraysets
           /\ RecordsOf(dataenv, result.name) = {}
    /\ (DeleteReturned /\ result.err = "") =>
           /\ result.name \in deleted
           /\ RecordsOf(dataenv, result.name) = {}

\* C24 witness: 'x', which had sample records in the staging area, was
\* deleted and has been initialised again, while another arrayset still has
\* its records
C24_Witness ==
    /\ InitReturned
    /\ result.err = ""
    /\ result.name = NameX
    /\ NameX \in deleted
    /\ NameX \in DOMAIN arraysets
    /\ NameX2 \in DOMAIN arraysets
    /\ RecordsOf(dataenv, NameX2) # {}

\* C25: a multi_add whose mapping has a name the catalog does not hold
\* inserts nothing, not even into the arraysets of the names that do exist:
\* the call never reaches the generation of the sample name nor the loop of
\* insertions, it returns an error and no sample name, and both stores are
\* as they were when it began.
C25_UnknownNameInsertsNothing ==
    /\ pc = "multi_add_loop" => UnknownNames(pre.mapping) = {}
    /\ (MultiAddReturned /\ UnknownNames(pre.mapping) # {}) =>
           /\ result.err \in {"KeyError", "EnterError", "TypeError"}
           /\ (mode = "a" /\ result.err # "EnterError") => result.err = "KeyError"
           /\ result.ret = <<>>
           /\ StoresUnchanged
           /\ \A n \in DOMAIN arraysets :
                  RecordsOf(dataenv, n) = RecordsOf(pre.dataenv, n)

\* C25 witness: the mapping names 'x', which the catalog holds and whose
\* array its accessor would accept, ahead of a name the catalog does not
\* hold, and the call has returned the unknown-key error
C25_Witness ==
    /\ MultiAddReturned
    /\ result.err = "KeyError"
    /\ pre.mapping[1][1] = NameX
    /\ NameX \in DOMAIN arraysets
    /\ AddAccepts(arraysets[NameX], pre.mapping[1][2])
    /\ UnknownNames(pre.mapping) # {}
    /\ sample_counter < MaxSamples

====
